---- MODULE Spec2Model ----
(***************************************************************************)
(* A model of logkit: the functional-option construction pipeline          *)
(* (NewLogger, WithConfig, WithWriter, WithDefaults,                       *)
(* WithExtraContextFields), the configuration validators, the level table, *)
(* the handler's attribute rewriting and the leveled logging methods.      *)
(*                                                                         *)
(* Go strings whose content the code inspects or transforms are sequences  *)
(* of one-character strings, so that strings.ToLower, time.Format and      *)
(* time.Parse are computed rather than assumed.  Map keys and error texts, *)
(* which the code only compares and concatenates, are TLA+ strings.        *)
(***************************************************************************)
EXTENDS Integers, Sequences, FiniteSets, TLC

(***************************************************************************)
(* Bounds of the model.                                                    *)
(***************************************************************************)
\* Longest option list handed to NewLogger.
MaxOpts == 2
\* Longest free sequence of logging calls made on a built logger.
MaxCalls == 2
MaxWith == 2
MaxRewrites == 2
MaxGoroutines == 2

(***************************************************************************)
(* Strings.                                                                *)
(***************************************************************************)
EmptyStr == << >>

Str_trace == <<"t", "r", "a", "c", "e">>
Str_debug == <<"d", "e", "b", "u", "g">>
Str_verbose == <<"v", "e", "r", "b", "o", "s", "e">>
Str_info == <<"i", "n", "f", "o">>
Str_warn == <<"w", "a", "r", "n">>
Str_error == <<"e", "r", "r", "o", "r">>
Str_fatal == <<"f", "a", "t", "a", "l">>
Str_unknown == <<"u", "n", "k", "n", "o", "w", "n">>
Str_dEbUg == <<"d", "E", "b", "U", "g">>
Str_TRACE == <<"T", "R", "A", "C", "E">>
Str_DEBUG == <<"D", "E", "B", "U", "G">>
Str_VERBOSE == <<"V", "E", "R", "B", "O", "S", "E">>
Str_INFO == <<"I", "N", "F", "O">>
Str_WARN == <<"W", "A", "R", "N">>
Str_ERROR == <<"E", "R", "R", "O", "R">>
Str_FATAL == <<"F", "A", "T", "A", "L">>
Str_Warn == <<"W", "a", "r", "n">>
Str_json == <<"j", "s", "o", "n">>
Str_text == <<"t", "e", "x", "t">>
Str_TEXT == <<"T", "E", "X", "T">>
Str_xml == <<"x", "m", "l">>
Str_stdout == <<"s", "t", "d", "o", "u", "t">>
Str_stderr == <<"s", "t", "d", "e", "r", "r">>
Str_file == <<"f", "i", "l", "e">>
Str_invalid == <<"i", "n", "v", "a", "l", "i", "d">>

Range(seq) == {seq[i] : i \in 1..Len(seq)}

UpperChars ==
    <<"A", "B", "C", "D", "E", "F", "G", "H", "I", "J", "K", "L", "M",
      "N", "O", "P", "Q", "R", "S", "T", "U", "V", "W", "X", "Y", "Z">>

\* strings.ToLower: unicode.ToLower on every (ASCII) character.
ToLower(s) ==
    LET LowerChars ==
            <<"a", "b", "c", "d", "e", "f", "g", "h", "i", "j", "k", "l", "m",
              "n", "o", "p", "q", "r", "s", "t", "u", "v", "w", "x", "y", "z">>
        LowerChar(c) ==
            IF \E i \in 1..26 : UpperChars[i] = c
            THEN LowerChars[CHOOSE i \in 1..26 : UpperChars[i] = c]
            ELSE c
    IN [i \in 1..Len(s) |-> LowerChar(s[i])]

\* strings.Join(elems, sep) over TLA+ strings.
RECURSIVE Join(_, _)
Join(elems, sep) ==
    IF elems = << >> THEN ""
    ELSE IF Len(elems) = 1 THEN elems[1]
    ELSE elems[1] \o sep \o Join(Tail(elems), sep)

(***************************************************************************)
(* The level table (levels.go).                                            *)
(***************************************************************************)
LevelTrace == -8
LevelDebug == -4
LevelVerbose == -2
LevelInfo == 0
LevelWarn == 4
LevelError == 8
LevelFatal == 16

\* levelNames without the two custom levels between slog's own: Verbose
\* and Trace have no name.
levelNames_SlogOnly ==
    (LevelDebug :> Str_DEBUG) @@ (LevelInfo :> Str_INFO) @@
    (LevelWarn :> Str_WARN) @@ (LevelError :> Str_ERROR) @@
    (LevelFatal :> Str_FATAL)

levelNames ==
    (LevelTrace :> Str_TRACE) @@ (LevelDebug :> Str_DEBUG) @@
    (LevelVerbose :> Str_VERBOSE) @@ (LevelInfo :> Str_INFO) @@
    (LevelWarn :> Str_WARN) @@ (LevelError :> Str_ERROR) @@
    (LevelFatal :> Str_FATAL)

levelValues ==
    (Str_trace :> LevelTrace) @@ (Str_debug :> LevelDebug) @@
    (Str_verbose :> LevelVerbose) @@ (Str_info :> LevelInfo) @@
    (Str_warn :> LevelWarn) @@ (Str_error :> LevelError) @@
    (Str_fatal :> LevelFatal)

(***************************************************************************)
(* Time layouts (package time, as used by validateTimeFormat and           *)
(* replaceTimeAttrs).  A layout is the string cut the way                  *)
(* time.nextStdChunk cuts it: each standard element is one item named      *)
(* after its std* constant, every other character is itself.  Formatted    *)
(* text is a character sequence, produced and consumed chunk by chunk the  *)
(* way Time.Format and time.Parse do.                                      *)
(***************************************************************************)
\* The standard elements of a layout (the std* constants of time/format.go).
StdNames ==
    {"stdLongYear", "stdYear", "stdMonth", "stdNumMonth", "stdZeroMonth",
     "stdWeekDay", "stdDay", "stdUnderDay", "stdZeroDay", "stdHour",
     "stdZeroHour12", "stdZeroMinute", "stdZeroSecond", "stdPM", "stdTZ",
     "stdFracSecond0"}

\* "02.01.2006 15:04:05.000"
DefaultTimeTemplate ==
    <<"stdZeroDay", ".", "stdZeroMonth", ".", "stdLongYear", " ",
      "stdHour", ":", "stdZeroMinute", ":", "stdZeroSecond", "stdFracSecond0">>

\* time.UnixDate, "Mon Jan _2 15:04:05 MST 2006"
UnixDate ==
    <<"stdWeekDay", " ", "stdMonth", " ", "stdUnderDay", " ",
      "stdHour", ":", "stdZeroMinute", ":", "stdZeroSecond", " ",
      "stdTZ", " ", "stdLongYear">>

Instant(y, mo, d, h, mi, s, ms) ==
    [year |-> y, month |-> mo, day |-> d, hour |-> h, min |-> mi, sec |-> s, msec |-> ms]

DigitChars == <<"0", "1", "2", "3", "4", "5", "6", "7", "8", "9">>

IsDigitChar(c) == \E i \in 1..10 : DigitChars[i] = c

DigitVal(c) == (CHOOSE i \in 1..10 : DigitChars[i] = c) - 1

RECURSIVE Itoa(_)
Itoa(n) ==
    IF n < 10 THEN <<DigitChars[n + 1]>>
    ELSE Itoa(n \div 10) \o <<DigitChars[(n % 10) + 1]>>

RECURSIVE Zeros(_)
Zeros(k) == IF k <= 0 THEN << >> ELSE <<"0">> \o Zeros(k - 1)

\* time.appendInt(b, x, width) for x >= 0.
appendInt(x, width) == Zeros(width - Len(Itoa(x))) \o Itoa(x)

RECURSIVE Atoi(_)
Atoi(s) == IF s = << >> THEN 0 ELSE Atoi(SubSeq(s, 1, Len(s) - 1)) * 10 + DigitVal(s[Len(s)])

AllDigits(s) == \A i \in 1..Len(s) : IsDigitChar(s[i])

Drop(s, n) == SubSeq(s, n + 1, Len(s))

HasPrefix(s, p) == Len(s) >= Len(p) /\ SubSeq(s, 1, Len(p)) = p

shortMonthNames ==
    << <<"J", "a", "n">>, <<"F", "e", "b">>, <<"M", "a", "r">>, <<"A", "p", "r">>,
       <<"M", "a", "y">>, <<"J", "u", "n">>, <<"J", "u", "l">>, <<"A", "u", "g">>,
       <<"S", "e", "p">>, <<"O", "c", "t">>, <<"N", "o", "v">>, <<"D", "e", "c">> >>

\* Indexed by Weekday + 1 (Sunday = 0).
shortDayNames ==
    << <<"S", "u", "n">>, <<"M", "o", "n">>, <<"T", "u", "e">>, <<"W", "e", "d">>,
       <<"T", "h", "u">>, <<"F", "r", "i">>, <<"S", "a", "t">> >>

\* Time.Weekday: day of the week of a civil date (Sunday = 0), for year >= 1.
Weekday(t) ==
    LET y == IF t.month <= 2 THEN t.year - 1 ELSE t.year
        era == y \div 400
        yoe == y - era * 400
        mp == (t.month + 9) % 12
        doy == (153 * mp + 2) \div 5 + t.day - 1
        doe == yoe * 365 + yoe \div 4 - yoe \div 100 + doy
        days == era * 146097 + doe - 719468
    IN (days + 4) % 7

\* One chunk of Time.Format in UTC.
FormatChunk(t, tok) ==
    CASE tok \notin StdNames -> <<tok>>
      [] tok = "stdLongYear" -> appendInt(t.year, 4)
      [] tok = "stdYear" -> appendInt(t.year % 100, 2)
      [] tok = "stdMonth" -> shortMonthNames[t.month]
      [] tok = "stdNumMonth" -> appendInt(t.month, 0)
      [] tok = "stdZeroMonth" -> appendInt(t.month, 2)
      [] tok = "stdWeekDay" -> shortDayNames[Weekday(t) + 1]
      [] tok = "stdDay" -> appendInt(t.day, 0)
      [] tok = "stdUnderDay" ->
            (IF t.day < 10 THEN <<" ">> ELSE << >>) \o appendInt(t.day, 0)
      [] tok = "stdZeroDay" -> appendInt(t.day, 2)
      [] tok = "stdHour" -> appendInt(t.hour, 2)
      [] tok = "stdZeroHour12" ->
            appendInt(IF t.hour % 12 = 0 THEN 12 ELSE t.hour % 12, 2)
      [] tok = "stdZeroMinute" -> appendInt(t.min, 2)
      [] tok = "stdZeroSecond" -> appendInt(t.sec, 2)
      [] tok = "stdPM" -> IF t.hour >= 12 THEN <<"P", "M">> ELSE <<"A", "M">>
      [] tok = "stdTZ" -> <<"U", "T", "C">>
      [] tok = "stdFracSecond0" -> <<".">> \o appendInt(t.msec, 3)

\* Time.Format(layout)
RECURSIVE Format(_, _)
Format(t, layout) ==
    IF layout = << >> THEN << >>
    ELSE FormatChunk(t, Head(layout)) \o Format(t, Tail(layout))

\* time.getnum(s, fixed): a one- or two-digit number at the head of s.
getnum(s, fixed) ==
    LET isDigit(i) == i < Len(s) /\ IsDigitChar(s[i + 1])
    IN IF ~isDigit(0) THEN [ok |-> FALSE, n |-> 0, rest |-> s]
       ELSE IF ~isDigit(1)
            THEN (IF fixed THEN [ok |-> FALSE, n |-> 0, rest |-> s]
                  ELSE [ok |-> TRUE, n |-> DigitVal(s[1]), rest |-> Drop(s, 1)])
            ELSE [ok |-> TRUE, n |-> DigitVal(s[1]) * 10 + DigitVal(s[2]),
                  rest |-> Drop(s, 2)]

\* time.lookup(tab, val): index (from 1) of the name val starts with, 0 if none.
lookup(tab, val) ==
    IF \E i \in 1..Len(tab) : HasPrefix(ToLower(val), ToLower(tab[i]))
    THEN CHOOSE i \in 1..Len(tab) : HasPrefix(ToLower(val), ToLower(tab[i]))
    ELSE 0

IsUpperChar(c) == \E i \in 1..26 : UpperChars[i] = c

ParseFail(st) == [st EXCEPT !.err = TRUE]

\* One iteration of the loop of time.parse: consume one chunk of the layout
\* from the value.
ParseChunk(st, tok) ==
    LET v == st.value IN
    CASE tok \notin StdNames ->
            IF HasPrefix(v, <<tok>>)
            THEN [st EXCEPT !.value = Drop(v, 1)]
            ELSE ParseFail(st)
      [] tok = "stdYear" ->
            IF Len(v) < 2 \/ ~AllDigits(SubSeq(v, 1, 2)) THEN ParseFail(st)
            ELSE LET y == Atoi(SubSeq(v, 1, 2))
                 IN [st EXCEPT !.value = Drop(v, 2),
                               !.year = IF y >= 69 THEN y + 1900 ELSE y + 2000]
      [] tok = "stdLongYear" ->
            IF Len(v) < 4 \/ ~AllDigits(SubSeq(v, 1, 4)) THEN ParseFail(st)
            ELSE [st EXCEPT !.value = Drop(v, 4), !.year = Atoi(SubSeq(v, 1, 4))]
      [] tok = "stdMonth" ->
            LET i == lookup(shortMonthNames, v)
            IN IF i = 0 THEN ParseFail(st)
               ELSE [st EXCEPT !.value = Drop(v, 3), !.month = i]
      [] tok \in {"stdNumMonth", "stdZeroMonth"} ->
            LET g == getnum(v, tok = "stdZeroMonth")
            IN IF ~g.ok \/ g.n <= 0 \/ g.n > 12 THEN ParseFail(st)
               ELSE [st EXCEPT !.value = g.rest, !.month = g.n]
      [] tok = "stdWeekDay" ->
            LET i == lookup(shortDayNames, v)
            IN IF i = 0 THEN ParseFail(st) ELSE [st EXCEPT !.value = Drop(v, 3)]
      [] tok \in {"stdDay", "stdUnderDay", "stdZeroDay"} ->
            LET w == IF tok = "stdUnderDay" /\ Len(v) > 0 /\ v[1] = " "
                     THEN Drop(v, 1) ELSE v
                g == getnum(w, tok = "stdZeroDay")
            IN IF ~g.ok THEN ParseFail(st)
               ELSE [st EXCEPT !.value = g.rest, !.day = g.n]
      [] tok = "stdHour" ->
            LET g == getnum(v, FALSE)
            IN IF ~g.ok \/ g.n >= 24 THEN ParseFail(st)
               ELSE [st EXCEPT !.value = g.rest, !.hour = g.n]
      [] tok = "stdZeroHour12" ->
            LET g == getnum(v, TRUE)
            IN IF ~g.ok \/ g.n > 12 THEN ParseFail(st)
               ELSE [st EXCEPT !.value = g.rest, !.hour = g.n]
      [] tok = "stdZeroMinute" ->
            LET g == getnum(v, TRUE)
            IN IF ~g.ok \/ g.n >= 60 THEN ParseFail(st)
               ELSE [st EXCEPT !.value = g.rest, !.min = g.n]
      [] tok = "stdZeroSecond" ->
            LET g == getnum(v, TRUE)
            IN IF ~g.ok \/ g.n >= 60 THEN ParseFail(st)
               ELSE [st EXCEPT !.value = g.rest, !.sec = g.n]
      [] tok = "stdPM" ->
            IF HasPrefix(v, <<"P", "M">>)
            THEN [st EXCEPT !.value = Drop(v, 2), !.pmSet = TRUE]
            ELSE IF HasPrefix(v, <<"A", "M">>)
            THEN [st EXCEPT !.value = Drop(v, 2), !.amSet = TRUE]
            ELSE ParseFail(st)
      [] tok = "stdTZ" ->
            IF Len(v) >= 3 /\ \A i \in 1..3 : IsUpperChar(v[i])
            THEN [st EXCEPT !.value = Drop(v, 3)]
            ELSE ParseFail(st)
      [] tok = "stdFracSecond0" ->
            IF Len(v) < 4 \/ v[1] # "." \/ ~AllDigits(SubSeq(v, 2, 4)) THEN ParseFail(st)
            ELSE [st EXCEPT !.value = Drop(v, 4), !.msec = Atoi(SubSeq(v, 2, 4))]

RECURSIVE ParseLoop(_, _)
ParseLoop(st, layout) ==
    IF st.err \/ layout = << >> THEN st
    ELSE ParseLoop(ParseChunk(st, Head(layout)), Tail(layout))

\* time.Parse(layout, value): [err, t].  Text left over after the last
\* chunk is an error; an afternoon marker moves the hour; an omitted month
\* or day is 1; the day must exist in the month.
Parse(layout, value) ==
    LET \* Before the first chunk: every element the layout omits keeps
        \* these values.
        ParseStart ==
            [value |-> value, err |-> FALSE, year |-> 0, month |-> -1, day |-> -1,
             hour |-> 0, min |-> 0, sec |-> 0, msec |-> 0,
             pmSet |-> FALSE, amSet |-> FALSE]
        daysIn(m, y) ==
            IF m = 2 THEN (IF y % 4 = 0 /\ (y % 100 # 0 \/ y % 400 = 0) THEN 29 ELSE 28)
            ELSE IF m \in {4, 6, 9, 11} THEN 30 ELSE 31
        Date(st) ==
            LET hour == IF st.pmSet /\ st.hour < 12 THEN st.hour + 12
                        ELSE IF st.amSet /\ st.hour = 12 THEN 0 ELSE st.hour
                month == IF st.month < 0 THEN 1 ELSE st.month
                day == IF st.day < 0 THEN 1 ELSE st.day
                zero == Instant(1, 1, 1, 0, 0, 0, 0)
            IN IF st.err \/ st.value # << >> THEN [err |-> TRUE, t |-> zero]
               ELSE IF day < 1 \/ day > daysIn(month, st.year)
                    THEN [err |-> TRUE, t |-> zero]
               ELSE [err |-> FALSE,
                     t |-> Instant(st.year, month, day, hour, st.min, st.sec, st.msec)]
    IN Date(ParseLoop(ParseStart, layout))

\* Time.Equal for instants in UTC.
TimeEqual(a, b) == a = b

(***************************************************************************)
(* Configuration values.  A value of Go's `any` is its dynamic type and    *)
(* its content.  "MyString" is a defined type whose underlying type is     *)
(* string (type MyString string): its reflect kind is String, but it is    *)
(* not the type string.  A key the mapping does not hold is "absent".      *)
(***************************************************************************)
Fields == {"format", "level", "time_template", "log_stream"}

StringVal(s) == [type |-> "string", v |-> s]
NamedStringVal(s) == [type |-> "MyString", v |-> s]
IntVal(digits) == [type |-> "int", v |-> digits]
NilVal == [type |-> "nil", v |-> << >>]
Absent == [type |-> "absent", v |-> << >>]

\* val, ok := cfg[field]
Present(cfg, field) == cfg[field].type # "absent"

\* reflect.TypeOf(val).Kind(), for a non-nil val.
Kind(val) == IF val.type \in {"string", "MyString"} THEN "string" ELSE val.type

\* s, ok := val.(string)
IsString(val) == val.type = "string"

NoCfg == [f \in Fields |-> Absent]

(***************************************************************************)
(* Defaults (defaults.go).                                                 *)
(***************************************************************************)
\* A default level of "info" in place of "error".
DefaultLevel_Info == Str_info

DefaultLogType == Str_json
DefaultLevel == Str_error
DefaultLevelValue == LevelError
DefaultWriter == Str_stdout
DefaultWriterValue == "os.Stdout"

\* The writers of the model: the two standard streams, a writer of the
\* caller's and the nil io.Writer.
NilWriter == "nil"
Writers == {"os.Stdout", "os.Stderr", "w"}

(***************************************************************************)
(* Validation (validators.go, errors.go).                                  *)
(***************************************************************************)
NoErrors == [invalidTypes |-> << >>, invalidValues |-> << >>]

\* validationError.Error
validationError_Error(e) ==
    LET types == IF Len(e.invalidTypes) > 0
                 THEN "invalid_type=" \o Join(e.invalidTypes, ",") ELSE ""
        sep == IF Len(e.invalidValues) > 0 /\ types # "" THEN ", " ELSE ""
        values == IF Len(e.invalidValues) > 0
                  THEN "invalid_value=" \o Join(e.invalidValues, ",") ELSE ""
    IN types \o sep \o values

hasErrors(e) == Len(e.invalidTypes) > 0 \/ Len(e.invalidValues) > 0

\* The orders in which Go may range over the map optionalFields.
FieldOrders ==
    {o \in [1..4 -> Fields] : \A f \in Fields : \E i \in 1..4 : o[i] = f}

\* validateTypes panics where reflect.TypeOf(val) is nil: Kind is called on
\* a nil reflect.Type.
validateTypesPanics(args) == \E f \in Fields : args[f].type = "nil"

\* validateTypes with the map ranged over in the given order.
RECURSIVE validateTypes(_, _)
validateTypes(args, order) ==
    IF order = << >> THEN << >>
    ELSE LET field == Head(order)
             rest == validateTypes(args, Tail(order))
         IN IF ~Present(args, field) THEN rest
            ELSE IF Kind(args[field]) # "string" THEN <<field>> \o rest
            ELSE rest

\* validateLogLevel without the lower-casing of the value.
validateLogLevel_NoLower(cfg, ve) ==
    IF ~Present(cfg, "level") THEN ve
    ELSE IF ~IsString(cfg["level"])
         THEN [ve EXCEPT !.invalidTypes = Append(@, "level")]
    ELSE IF cfg["level"].v \notin DOMAIN levelValues
         THEN [ve EXCEPT !.invalidValues = Append(@, "level")]
    ELSE ve

validateLogLevel(cfg, ve) ==
    IF ~Present(cfg, "level") THEN ve
    ELSE IF ~IsString(cfg["level"])
         THEN [ve EXCEPT !.invalidTypes = Append(@, "level")]
    ELSE IF ToLower(cfg["level"].v) \notin DOMAIN levelValues
         THEN [ve EXCEPT !.invalidValues = Append(@, "level")]
    ELSE ve

\* testTime of validateTimeFormat.
testTime == Instant(2006, 1, 2, 15, 4, 5, 0)

\* validateTimeFormat that only asks whether the text parses back, not
\* whether it parses back to the same instant.
validateTimeFormat_NoEqual(cfg, ve) ==
    IF ~Present(cfg, "time_template") THEN ve
    ELSE IF ~IsString(cfg["time_template"])
         THEN [ve EXCEPT !.invalidTypes = Append(@, "time_template")]
    ELSE IF cfg["time_template"].v = EmptyStr THEN ve
    ELSE LET timeTmpl == cfg["time_template"].v
             formatted == Format(testTime, timeTmpl)
             parsed == Parse(timeTmpl, formatted)
         IN IF parsed.err
            THEN [ve EXCEPT !.invalidValues = Append(@, "time_template")]
            ELSE ve

validateTimeFormat(cfg, ve) ==
    IF ~Present(cfg, "time_template") THEN ve
    ELSE IF ~IsString(cfg["time_template"])
         THEN [ve EXCEPT !.invalidTypes = Append(@, "time_template")]
    ELSE IF cfg["time_template"].v = EmptyStr THEN ve
    ELSE LET timeTmpl == cfg["time_template"].v
             formatted == Format(testTime, timeTmpl)
             Differs(parsed) == parsed.err \/ ~TimeEqual(parsed.t, testTime)
         IN IF Differs(Parse(timeTmpl, formatted))
            THEN [ve EXCEPT !.invalidValues = Append(@, "time_template")]
            ELSE ve

validateWriter(cfg, ve) ==
    IF ~Present(cfg, "log_stream") THEN ve
    ELSE IF ~IsString(cfg["log_stream"])
         THEN [ve EXCEPT !.invalidTypes = Append(@, "log_stream")]
    ELSE IF cfg["log_stream"].v \notin {Str_stdout, Str_stderr, EmptyStr}
         THEN [ve EXCEPT !.invalidValues = Append(@, "log_stream")]
    ELSE ve

validateLogType(cfg, ve) ==
    IF ~Present(cfg, "format") THEN ve
    ELSE IF ~IsString(cfg["format"])
         THEN [ve EXCEPT !.invalidTypes = Append(@, "format")]
    ELSE IF cfg["format"].v \notin {Str_json, Str_text, EmptyStr}
         THEN [ve EXCEPT !.invalidValues = Append(@, "format")]
    ELSE ve

\* What validateTypes may return for args, over the orders of iteration.
validateTypesResults(args) == {validateTypes(args, o) : o \in FieldOrders}

\* The validation part of WithConfig: the result of validateTypes, then the
\* four checks in the order WithConfig calls them.
validate(cfg, invalidTypes) ==
    validateLogType(cfg,
        validateWriter(cfg,
            validateTimeFormat(cfg,
                validateLogLevel(cfg,
                    [NoErrors EXCEPT !.invalidTypes = invalidTypes]))))

(***************************************************************************)
(* Config, the handler and the options (logger.go, handler.go).            *)
(***************************************************************************)
\* The nil slog.Handler.
NilHandler == [encoder |-> "nil", level |-> 0, writer |-> NilWriter]

\* cfg := &Config{}
ZeroConfig ==
    [logType |-> EmptyStr, writer |-> NilWriter, timeTemplate |-> EmptyStr,
     level |-> 0, setupLevel |-> FALSE, extraCtxFields |-> << >>,
     handler |-> NilHandler]

\* checkDefaults without the default of the log type.
checkDefaults_NoLogType(c) ==
    LET c2 == IF c.writer = NilWriter THEN [c EXCEPT !.writer = DefaultWriterValue] ELSE c
        c3 == IF c2.timeTemplate = EmptyStr
              THEN [c2 EXCEPT !.timeTemplate = DefaultTimeTemplate] ELSE c2
    IN IF c3.setupLevel THEN [c3 EXCEPT !.level = DefaultLevelValue] ELSE c3

\* checkDefaults that resets the level whether or not setupLevel is set.
checkDefaults_AlwaysLevel(c) ==
    LET c1 == IF c.logType = EmptyStr THEN [c EXCEPT !.logType = DefaultLogType] ELSE c
        c2 == IF c1.writer = NilWriter THEN [c1 EXCEPT !.writer = DefaultWriterValue] ELSE c1
        c3 == IF c2.timeTemplate = EmptyStr
              THEN [c2 EXCEPT !.timeTemplate = DefaultTimeTemplate] ELSE c2
    IN [c3 EXCEPT !.level = DefaultLevelValue]

\* Config.checkDefaults
checkDefaults(c) ==
    LET c1 == IF c.logType = EmptyStr THEN [c EXCEPT !.logType = DefaultLogType] ELSE c
        c2 == IF c1.writer = NilWriter THEN [c1 EXCEPT !.writer = DefaultWriterValue] ELSE c1
        c3 == IF c2.timeTemplate = EmptyStr
              THEN [c2 EXCEPT !.timeTemplate = DefaultTimeTemplate] ELSE c2
    IN IF c3.setupLevel THEN [c3 EXCEPT !.level = DefaultLevelValue] ELSE c3

\* buildHandler without the case "text": every format gets the JSON
\* encoder.
buildHandler_AlwaysJSON(c) ==
    [encoder |-> "json", level |-> c.level, writer |-> c.writer]

\* buildHandler: the minimum level, the encoder and the writer are fixed
\* when the handler is built; its ReplaceAttr hook reads c.timeTemplate
\* through the Config pointer each time it runs.
buildHandler(c) ==
    [encoder |-> CASE ToLower(c.logType) \in {Str_json, EmptyStr} -> "json"
                   [] ToLower(c.logType) = Str_text -> "text"
                   [] OTHER -> "json",
     level |-> c.level,
     writer |-> c.writer]

\* What applying an option returns: a panic, or an error ("" is nil) and
\* the Config as the option left it; ve is the validationError the option
\* accumulated, NoErrors for the options that validate no mapping.
Returned(e, c, ve) == [panic |-> FALSE, err |-> e, c |-> c, ve |-> ve]
Panicked(c) == [panic |-> TRUE, err |-> "", c |-> c, ve |-> NoErrors]

\* The assignments of WithConfig that follow a successful validation.
applyConfig(cfg, c) ==
    LET c1 == IF ~Present(cfg, "level") THEN c
              ELSE LET levelStr == ToLower(cfg["level"].v)
                   IN IF levelStr \in DOMAIN levelValues
                      THEN [c EXCEPT !.level = levelValues[levelStr]]
                      ELSE [c EXCEPT !.setupLevel = TRUE]
        c2 == IF ~Present(cfg, "time_template") THEN c1
              ELSE [c1 EXCEPT !.timeTemplate = cfg["time_template"].v]
        c3 == IF ~Present(cfg, "log_stream") THEN c2
              ELSE LET writer == ToLower(cfg["log_stream"].v)
                   IN IF writer = Str_stdout THEN [c2 EXCEPT !.writer = "os.Stdout"]
                      ELSE IF writer = Str_stderr THEN [c2 EXCEPT !.writer = "os.Stderr"]
                      ELSE c2
        c4 == IF ~Present(cfg, "format") THEN c3
              ELSE [c3 EXCEPT !.logType = cfg["format"].v]
        c5 == checkDefaults(c4)
    IN [c5 EXCEPT !.handler = buildHandler(c5)]

\* WithConfig with the assignments before the check of the validation
\* result: the fields of a mapping with an unacceptable value are stored
\* and the handler rebuilt before the error is returned.
WithConfig_AssignFirst(cfg, c, invalidTypes) ==
    IF validateTypesPanics(cfg) THEN Panicked(c)
    ELSE LET Validated(ve) ==
                 IF hasErrors(ve)
                 THEN Returned("config data is invalid: " \o validationError_Error(ve),
                               IF ve.invalidTypes = << >> THEN applyConfig(cfg, c) ELSE c, ve)
                 ELSE Returned("", applyConfig(cfg, c), ve)
         IN Validated(validate(cfg, invalidTypes))

\* The Option WithConfig(cfg) returns, applied to c; invalidTypes is what
\* validateTypes returned, one of validateTypesResults(cfg).
WithConfig(cfg, c, invalidTypes) ==
    IF validateTypesPanics(cfg) THEN Panicked(c)
    ELSE LET Validated(ve) ==
                 IF hasErrors(ve)
                 THEN Returned("config data is invalid: " \o validationError_Error(ve), c, ve)
                 ELSE Returned("", applyConfig(cfg, c), ve)
         IN Validated(validate(cfg, invalidTypes))

\* WithWriter with the assignment before the nil check: the writer is
\* stored even when the option fails.
WithWriter_AssignFirst(w, c) ==
    IF w = NilWriter
    THEN Returned("expected io.Writer, got nil", [c EXCEPT !.writer = w], NoErrors)
    ELSE LET c1 == [c EXCEPT !.writer = w]
         IN Returned("", [c1 EXCEPT !.handler = buildHandler(c1)], NoErrors)

\* The Option WithWriter(w) returns.
WithWriter(w, c) ==
    IF w = NilWriter THEN Returned("expected io.Writer, got nil", c, NoErrors)
    ELSE LET c1 == [c EXCEPT !.writer = w]
         IN Returned("", [c1 EXCEPT !.handler = buildHandler(c1)], NoErrors)

\* The mapping WithDefaults hands to WithConfig.
DefaultsCfg ==
    [format |-> StringVal(DefaultLogType), level |-> StringVal(DefaultLevel),
     time_template |-> StringVal(DefaultTimeTemplate),
     log_stream |-> StringVal(DefaultWriter)]

\* The Option WithDefaults() returns.
WithDefaults(c, invalidTypes) == WithConfig(DefaultsCfg, c, invalidTypes)

\* A context key is a plain string, a fmt.Stringer or a value of any other
\* shape; name is the string, or what String() returns.
Key(shape, name) == [shape |-> shape, name |-> name]

\* validateLoggableContextKeys: the names of the keys whose shape is
\* neither string nor fmt.Stringer.
RECURSIVE invalidContextKeys(_)
invalidContextKeys(fields) ==
    IF fields = << >> THEN << >>
    ELSE IF Head(fields).shape \in {"string", "stringer"}
         THEN invalidContextKeys(Tail(fields))
         ELSE <<Head(fields).name>> \o invalidContextKeys(Tail(fields))

validateLoggableContextKeys(fields) ==
    IF invalidContextKeys(fields) = << >> THEN ""
    ELSE "unsupported context key types: " \o Join(invalidContextKeys(fields), ", ")

\* WithExtraContextFields that assigns the given keys instead of
\* appending them: the keys of earlier options are lost.
WithExtraContextFields_Assign(fields, c) ==
    IF Len(fields) = 0 THEN Returned("", c, NoErrors)
    ELSE IF validateLoggableContextKeys(fields) # ""
         THEN Returned(validateLoggableContextKeys(fields), c, NoErrors)
    ELSE Returned("", [c EXCEPT !.extraCtxFields = fields], NoErrors)

\* The Option WithExtraContextFields(fields...) returns.
WithExtraContextFields(fields, c) ==
    IF Len(fields) = 0 THEN Returned("", c, NoErrors)
    ELSE IF validateLoggableContextKeys(fields) # ""
         THEN Returned(validateLoggableContextKeys(fields), c, NoErrors)
    ELSE Returned("", [c EXCEPT !.extraCtxFields = @ \o fields], NoErrors)

\* Options as data: which constructor made it, with its argument.
OptConfig(cfg) == [op |-> "WithConfig", cfg |-> cfg, w |-> NilWriter, fields |-> << >>]
OptWriter(w) == [op |-> "WithWriter", cfg |-> NoCfg, w |-> w, fields |-> << >>]
OptDefaults == [op |-> "WithDefaults", cfg |-> NoCfg, w |-> NilWriter, fields |-> << >>]
OptFields(fields) ==
    [op |-> "WithExtraContextFields", cfg |-> NoCfg, w |-> NilWriter, fields |-> fields]

\* The mapping an option validates, NoCfg for the options that have none.
OptCfg(opt) == IF opt.op = "WithDefaults" THEN DefaultsCfg ELSE opt.cfg

\* opt(cfg)
Apply(opt, c, invalidTypes) ==
    CASE opt.op = "WithConfig" -> WithConfig(opt.cfg, c, invalidTypes)
      [] opt.op = "WithWriter" -> WithWriter(opt.w, c)
      [] opt.op = "WithDefaults" -> WithDefaults(c, invalidTypes)
      [] opt.op = "WithExtraContextFields" -> WithExtraContextFields(opt.fields, c)

(***************************************************************************)
(* Attributes and the ReplaceAttr hook (handler.go).  An attribute is a    *)
(* key and a slog.Value; a value is its dynamic content: a slog.Level, a   *)
(* string, a time.Time, an int64, or a group of attributes.                *)
(***************************************************************************)
TimeKey == "time"
LevelKey == "level"
MessageKey == "msg"

Attr(k, val) == [key |-> k, value |-> val]
LevelValue(n) == [kind |-> "Level", v |-> n]
StringValue(s) == [kind |-> "String", v |-> s]
TimeValue(t) == [kind |-> "Time", v |-> t]
Int64Value(n) == [kind |-> "Int64", v |-> n]
GroupValue(as) == [kind |-> "Group", v |-> as]

\* The dynamic type of a.Value.Any().  slog stores every Go integer as an
\* int64, so no value yields the type int.
AnyType(value) ==
    CASE value.kind = "Level" -> "slog.Level"
      [] value.kind = "Int64" -> "int64"
      [] value.kind = "String" -> "string"
      [] value.kind = "Time" -> "time.Time"
      [] value.kind = "Group" -> "[]slog.Attr"

\* replaceLevelAttr
replaceLevelAttr(groups, a) ==
    IF a.key = LevelKey /\ Len(groups) = 0
    THEN CASE AnyType(a.value) = "slog.Level" ->
                (IF a.value.v \in DOMAIN levelNames
                 THEN Attr(LevelKey, StringValue(levelNames[a.value.v])) ELSE a)
           [] AnyType(a.value) = "int" ->
                (IF a.value.v \in DOMAIN levelNames
                 THEN Attr(LevelKey, StringValue(levelNames[a.value.v])) ELSE a)
           [] OTHER -> a
    ELSE a

\* replaceTimeAttrs with append in place of the indexed assignment in the
\* group handling: newGroup keeps its len(group) zero attributes and the
\* rendered members follow them.
RECURSIVE replaceTimeAttrs_AppendGroup(_, _, _)
replaceTimeAttrs_AppendGroup(groups, a, timeFormat) ==
    IF a.key = TimeKey /\ Len(groups) = 0
    THEN (IF a.value.kind = "Time"
          THEN Attr(a.key, StringValue(Format(a.value.v, timeFormat)))
          ELSE a)
    ELSE IF a.value.kind = "Time"
    THEN Attr(a.key, StringValue(Format(a.value.v, timeFormat)))
    ELSE IF a.value.kind = "Group"
    THEN Attr(a.key,
              GroupValue([i \in 1..Len(a.value.v) |-> Attr("", [kind |-> "Any", v |-> 0])]
                         \o [i \in 1..Len(a.value.v) |->
                                replaceTimeAttrs_AppendGroup(Append(groups, a.key),
                                                             a.value.v[i], timeFormat)]))
    ELSE a

\* replaceTimeAttrs
RECURSIVE replaceTimeAttrs(_, _, _)
replaceTimeAttrs(groups, a, timeFormat) ==
    IF a.key = TimeKey /\ Len(groups) = 0
    THEN (IF a.value.kind = "Time"
          THEN Attr(a.key, StringValue(Format(a.value.v, timeFormat)))
          ELSE a)
    ELSE IF a.value.kind = "Time"
    THEN Attr(a.key, StringValue(Format(a.value.v, timeFormat)))
    ELSE IF a.value.kind = "Group"
    THEN Attr(a.key,
              GroupValue([i \in 1..Len(a.value.v) |->
                  replaceTimeAttrs(Append(groups, a.key), a.value.v[i], timeFormat)]))
    ELSE a

\* The ReplaceAttr hook buildHandler installs, for Config c.
ReplaceAttr(c, groups, a) ==
    replaceTimeAttrs(groups, replaceLevelAttr(groups, a), c.timeTemplate)

\* slog's handler applies ReplaceAttr to every attribute that is not a
\* group and descends into groups itself, with the group's key appended to
\* the path.
RECURSIVE appendAttr(_, _, _)
appendAttr(c, groups, a) ==
    IF a.value.kind = "Group"
    THEN Attr(a.key,
              GroupValue([i \in 1..Len(a.value.v) |->
                  appendAttr(c, Append(groups, a.key), a.value.v[i])]))
    ELSE ReplaceAttr(c, groups, a)

\* Enabled with the comparison off by one: a call at the minimum level is
\* dropped.
Enabled_Above(h, level) == level > h.level

\* Handler.Enabled: slog compares the record's level with the minimum
\* level given in HandlerOptions.
Enabled(h, level) == level >= h.level

\* Handler.Handle: the record as the encoder writes it, in one Write: the
\* built-in time, level and message, then the attributes bound by With and
\* the attributes of the call.
Handle(h, c, bound, t, level, msg, attrs) ==
    [encoder |-> h.encoder,
     time |-> ReplaceAttr(c, << >>, Attr(TimeKey, TimeValue(t))).value,
     level |-> ReplaceAttr(c, << >>, Attr(LevelKey, LevelValue(level))).value,
     msg |-> ReplaceAttr(c, << >>, Attr(MessageKey, StringValue(msg))).value,
     attrs |-> [i \in 1..Len(bound \o attrs) |-> appendAttr(c, << >>, (bound \o attrs)[i])]]

(***************************************************************************)
(* The Logger (core.go).                                                   *)
(***************************************************************************)
NilLogger == [handler |-> NilHandler, bound |-> << >>, extraCtxFields |-> << >>]

\* A context is the chain of its WithValue bindings, innermost last; a
\* bound value is either a slog.Attr or any other value.
Background == << >>
Binding(k, isAttr, a) == [key |-> k, isAttr |-> isAttr, attr |-> a]

\* ctx.Value(k): the innermost binding of k, or none.
HasValue(ctx, k) == \E i \in 1..Len(ctx) : ctx[i].key = k
Value(ctx, k) == ctx[CHOOSE i \in 1..Len(ctx) :
                        ctx[i].key = k /\ \A j \in (i + 1)..Len(ctx) : ctx[j].key # k]

\* addContextData without the slog.Attr case: a stored attribute is wrapped
\* under the registered key like any other value.
RECURSIVE addContextData_NoAttrCase(_, _, _)
addContextData_NoAttrCase(fields, ctx, args) ==
    IF fields = << >> THEN args
    ELSE LET k == Head(fields)
             more == Tail(fields)
         IN IF ~HasValue(ctx, k) THEN addContextData_NoAttrCase(more, ctx, args)
            ELSE IF k.shape \in {"string", "stringer"}
                 THEN addContextData_NoAttrCase(more, ctx,
                          Append(args, Attr(k.name, Value(ctx, k).attr.value)))
            ELSE addContextData_NoAttrCase(more, ctx, args)

\* Logger.addContextData
RECURSIVE addContextData(_, _, _)
addContextData(fields, ctx, args) ==
    IF fields = << >> THEN args
    ELSE LET k == Head(fields)
             more == Tail(fields)
         IN IF ~HasValue(ctx, k) THEN addContextData(more, ctx, args)
            ELSE IF Value(ctx, k).isAttr
                 THEN addContextData(more, ctx, Append(args, Value(ctx, k).attr))
            ELSE IF k.shape \in {"string", "stringer"}
                 THEN addContextData(more, ctx,
                          Append(args, Attr(k.name, Value(ctx, k).attr.value)))
            ELSE addContextData(more, ctx, args)

\* slog.Logger.Log through the logger's handler: what the writers hold
\* after the call.
Log(logg, c, written, t, level, msg, args) ==
    IF Enabled(logg.handler, level)
    THEN [written EXCEPT ![logg.handler.writer] =
              Append(@, Handle(logg.handler, c, logg.bound, t, level, msg, args))]
    ELSE written

\* The seven leveled methods.
Methods == <<"Trace", "Debug", "Verbose", "Info", "Warn", "Error", "Fatal">>

(***************************************************************************)
(* The inputs of the model.                                                *)
(***************************************************************************)
CfgLevel(val) == [NoCfg EXCEPT !["level"] = val]
CfgFormat(val) == [NoCfg EXCEPT !["format"] = val]
CfgTime(val) == [NoCfg EXCEPT !["time_template"] = val]
CfgStream(val) == [NoCfg EXCEPT !["log_stream"] = val]

\* The mapping of the repository's tests, with the level under test.
TestCfg(level) ==
    [format |-> StringVal(Str_json), level |-> StringVal(level),
     time_template |-> StringVal(UnixDate), log_stream |-> StringVal(Str_stdout)]

LevelStrings ==
    {Str_trace, Str_debug, Str_verbose, Str_info, Str_warn, Str_error, Str_fatal,
     Str_dEbUg, Str_INFO, Str_Warn, EmptyStr, Str_unknown}

Components == <<"year", "month", "day", "hour", "minute", "second">>

\* The layout of the components kept, each followed by a space.
RECURSIVE LayoutOf(_, _)
LayoutOf(kept, names) ==
    LET Component(name) ==
            CASE name = "year" -> <<"stdLongYear">>
              [] name = "month" -> <<"stdZeroMonth">>
              [] name = "day" -> <<"stdZeroDay">>
              [] name = "hour" -> <<"stdHour">>
              [] name = "minute" -> <<"stdZeroMinute">>
              [] name = "second" -> <<"stdZeroSecond">>
    IN IF names = << >> THEN << >>
       ELSE (IF Head(names) \in kept THEN Component(Head(names)) \o <<" ">> ELSE << >>)
            \o LayoutOf(kept, Tail(names))

\* Layouts with every subset of the six components of the instant, the
\* layouts of the tests, and layouts that render a component in a form
\* Parse reads differently: "2006-01-02 03:04:05", "2006-01-02 03:04:05PM",
\* "06-01-02 15:04:05" and "2006 12 15:04:05".
Templates ==
    LET Layout12h ==
            <<"stdLongYear", "-", "stdZeroMonth", "-", "stdZeroDay", " ",
              "stdZeroHour12", ":", "stdZeroMinute", ":", "stdZeroSecond">>
        Layout12hPM == Layout12h \o <<"stdPM">>
        LayoutShortYear ==
            <<"stdYear", "-", "stdZeroMonth", "-", "stdZeroDay", " ",
              "stdHour", ":", "stdZeroMinute", ":", "stdZeroSecond">>
        LayoutAdjacent ==
            <<"stdLongYear", " ", "stdNumMonth", "stdDay", " ",
              "stdHour", ":", "stdZeroMinute", ":", "stdZeroSecond">>
    IN {LayoutOf(kept, Components) : kept \in SUBSET Range(Components)}
       \cup {UnixDate, DefaultTimeTemplate, EmptyStr, Str_invalid,
             Layout12h, Layout12hPM, LayoutShortYear, LayoutAdjacent}

\* Every mapping over the four recognised keys with these values.
ValidationCfgs ==
    LET Digits5 == <<"5">>
        LevelVals ==
            {Absent, StringVal(Str_debug), StringVal(EmptyStr), StringVal(Str_unknown),
             IntVal(Digits5), NamedStringVal(Str_debug), NilVal}
        FormatVals ==
            {Absent, StringVal(Str_text), StringVal(EmptyStr), StringVal(Str_xml),
             IntVal(Digits5)}
        TimeVals ==
            {Absent, StringVal(UnixDate), StringVal(EmptyStr), StringVal(Str_invalid),
             IntVal(Digits5)}
        StreamVals ==
            {Absent, StringVal(Str_stderr), StringVal(EmptyStr), StringVal(Str_file),
             IntVal(Digits5)}
    IN {[format |-> f, level |-> l, time_template |-> t, log_stream |-> s] :
           f \in FormatVals, l \in LevelVals, t \in TimeVals, s \in StreamVals}

KeyUser == Key("string", "user_id")
KeyRequest == Key("stringer", "request_id")
KeyStruct == Key("other", "struct {}")

\* The options that option lists of several options are made of.
BuildOptions ==
    {OptDefaults, OptWriter("w"), OptWriter(NilWriter),
     OptFields(<<KeyUser>>), OptFields(<<KeyUser, KeyStruct>>)}
    \cup {OptConfig(CfgLevel(StringVal(l))) : l \in {Str_debug, Str_unknown}}
    \cup {OptConfig(CfgFormat(StringVal(f))) : f \in {Str_text, EmptyStr, Str_xml}}
    \cup {OptConfig(CfgTime(StringVal(t))) : t \in {UnixDate, EmptyStr}}
    \cup {OptConfig(CfgStream(StringVal(s))) : s \in {Str_stderr, EmptyStr}}
    \cup {OptConfig(TestCfg(Str_warn))}

RECURSIVE ListsUpTo(_, _)
ListsUpTo(S, n) ==
    IF n = 0 THEN {<< >>}
    ELSE LET shorter == ListsUpTo(S, n - 1)
         IN shorter \cup {Append(l, o) : l \in shorter, o \in S}

\* The option lists of the construction runs: one WithConfig over every
\* mapping, layout and level string and over values of a defined string
\* type, and every list of at most MaxOpts build options.
BuildOptionLists ==
    LET TemplateCfgs == {CfgTime(StringVal(T)) : T \in Templates}
        LevelCfgs ==
            {CfgLevel(StringVal(l)) : l \in LevelStrings}
            \cup {TestCfg(l) : l \in LevelStrings}
        NamedCfgs ==
            {CfgLevel(NamedStringVal(Str_unknown)), CfgFormat(NamedStringVal(Str_text)),
             CfgFormat(NamedStringVal(Str_xml)), CfgTime(NamedStringVal(UnixDate)),
             CfgStream(NamedStringVal(Str_stderr))}
    IN {<<OptConfig(m)>> : m \in ValidationCfgs \cup TemplateCfgs \cup LevelCfgs \cup NamedCfgs}
       \cup {<<OptFields(<< >>)>>,
             <<OptFields(<<KeyRequest>>), OptFields(<<KeyUser>>)>>,
             <<OptFields(<<KeyRequest, KeyUser>>), OptFields(<< >>), OptFields(<<KeyRequest>>)>>,
             <<OptFields(<<KeyRequest>>), OptFields(<<KeyStruct, KeyUser>>)>>}
       \cup ListsUpTo(BuildOptions, MaxOpts)

\* The option lists of the logging runs: none, a writer, a level, a level
\* and a writer, a format and a writer, as the tests build their loggers.
LogOptionLists ==
    {<< >>, <<OptWriter("w")>>, <<OptDefaults, OptWriter("w")>>}
    \cup {<<OptConfig(CfgLevel(StringVal(l)))>> : l \in LevelStrings}
    \cup {<<OptConfig(CfgLevel(StringVal(l))), OptWriter("w")>> : l \in LevelStrings}
    \cup {<<OptConfig(TestCfg(l)), OptWriter("w")>> : l \in LevelStrings}
    \cup {<<OptConfig([TestCfg(Str_info) EXCEPT !["format"] = StringVal(f)]),
             OptWriter("w")>> : f \in {Str_json, Str_text, EmptyStr, Str_unknown, Str_TEXT}}

\* The instants at which the calls are made.
Clock == {Instant(2026, 11, 2, 9, 7, 3, 42)}

Str_message == <<"m", "s", "g">>

(***************************************************************************)
(* The state machine: NewLogger applies the defaults, then the options in  *)
(* order, and returns the logger; the caller then logs through it.         *)
(***************************************************************************)
VARIABLES
    opts,       \* the options handed to NewLogger
    pc,         \* "defaults", "options", "built", "failed", "panicked", "exited"
    cfg,        \* the Config under construction
    applied,    \* how many of the options have been applied without error
    err,        \* the error NewLogger returned, "" if none
    ve,         \* the validationError of the option applied last
    logger,     \* the Logger NewLogger returned
    written,    \* per writer, the records written to it, in order
    calls,      \* the methods called on the logger, in order
    exitCode,   \* the status the process exited with, -1 while it runs
    ctx,        \* the context the caller passes to its calls
    args,       \* the explicit arguments the caller passes to its calls
    children,   \* the loggers With returned, in the order of the calls
    withs,      \* the With calls, in order: the logger called and the
                \* attributes given
    hook,       \* the attribute rewriter called on its own: the group path
                \* and the attribute given, the attribute as it is now and
                \* the rewrites applied to it, in order
    goroutines, \* the goroutines that call the logger concurrently: where
                \* each is in its call, its context, the array and the
                \* length of its args slice, and what it passed to Log
    arrays,     \* the backing arrays of the args slices: 0 is the array
                \* of the slice the callers share, g the array goroutine
                \* g allocated
    passed      \* per call: the logger called (1 is the one NewLogger
                \* returned, k + 1 is children[k]) and what the method
                \* passed to slog's Log after addContextData

vars == <<opts, pc, cfg, applied, err, ve, logger, written, calls, exitCode,
          ctx, args, children, withs, hook, goroutines, arrays, passed>>

InitLogger(lists, ctxs, argLists) ==
    /\ opts \in lists
    /\ pc = "defaults"
    /\ cfg = ZeroConfig
    /\ applied = 0
    /\ err = ""
    /\ ve = NoErrors
    /\ logger = NilLogger
    /\ written = [w \in Writers |-> << >>]
    /\ calls = << >>
    /\ exitCode = -1
    /\ ctx \in ctxs
    /\ args \in argLists
    /\ children = << >>
    /\ withs = << >>
    /\ passed = << >>

InitWith(lists, ctxs, argLists) ==
    /\ InitLogger(lists, ctxs, argLists)
    /\ hook = "none"
    /\ goroutines = << >>
    /\ arrays = << >>

Init == InitWith(LogOptionLists, {Background}, {<< >>})

InitBuild == InitWith(BuildOptionLists, {Background}, {<< >>})

\* Loggers with registered context keys, called with a context and
\* explicit attributes: the cases of TestAdditionalFields, a key that is
\* not registered and a key bound twice.
InitCtx ==
    LET KeyTrace == Key("string", "trace_id")
        Plain(k, n) == Binding(k, FALSE, Attr("", Int64Value(n)))
    IN InitWith({<< >>,
                 <<OptFields(<<KeyUser, KeyRequest>>)>>,
                 <<OptFields(<<KeyRequest>>), OptFields(<<KeyUser>>)>>,
                 <<OptConfig(TestCfg(Str_debug)), OptFields(<<KeyRequest>>)>>},
                {Background,
                 <<Binding(KeyUser, TRUE, Attr("uid", Int64Value(123)))>>,
                 <<Plain(KeyRequest, 7), Plain(KeyUser, 123)>>,
                 <<Plain(KeyTrace, 5), Plain(KeyUser, 1), Plain(KeyUser, 2)>>},
                {<< >>, <<Attr("status", Int64Value(200))>>})

\* NewLogger, first step: WithDefaults()(cfg).
ApplyDefaults ==
    /\ pc = "defaults"
    /\ \E r \in {WithDefaults(cfg, types) : types \in validateTypesResults(DefaultsCfg)} :
            IF r.panic
            THEN /\ pc' = "panicked"
                 /\ UNCHANGED <<cfg, err, ve>>
            ELSE IF r.err # ""
            THEN /\ pc' = "failed"
                 /\ err' = "default logger initialization failed"
                 /\ cfg' = r.c
                 /\ ve' = r.ve
            ELSE /\ pc' = "options"
                 /\ cfg' = r.c
                 /\ ve' = r.ve
                 /\ UNCHANGED err
    /\ UNCHANGED <<opts, applied, logger, written, calls, exitCode>>
    /\ UNCHANGED <<ctx, args, children, withs, hook, goroutines, arrays, passed>>

\* The loop of NewLogger without the return on an error: the error is
\* kept and the next option is applied.
ApplyOption_KeepGoing ==
    /\ pc = "options"
    /\ applied < Len(opts)
    /\ LET opt == opts[applied + 1]
       IN \E r \in {Apply(opt, cfg, types) : types \in validateTypesResults(OptCfg(opt))} :
               IF r.panic
               THEN /\ pc' = "panicked"
                    /\ UNCHANGED <<cfg, err, ve, applied>>
               ELSE /\ err' = IF r.err # ""
                              THEN "logger initialization failed: " \o r.err ELSE err
                    /\ cfg' = r.c
                    /\ ve' = r.ve
                    /\ applied' = applied + 1
                    /\ UNCHANGED pc
    /\ UNCHANGED <<opts, logger, written, calls, exitCode>>
    /\ UNCHANGED <<ctx, args, children, withs, hook, goroutines, arrays, passed>>

\* NewLogger, one iteration of the loop over opts.
ApplyOption ==
    /\ pc = "options"
    /\ applied < Len(opts)
    /\ LET opt == opts[applied + 1]
       IN \E r \in {Apply(opt, cfg, types) : types \in validateTypesResults(OptCfg(opt))} :
               IF r.panic
               THEN /\ pc' = "panicked"
                    /\ UNCHANGED <<cfg, err, ve, applied>>
               ELSE IF r.err # ""
               THEN /\ pc' = "failed"
                    /\ err' = "logger initialization failed: " \o r.err
                    /\ cfg' = r.c
                    /\ ve' = r.ve
                    /\ UNCHANGED applied
               ELSE /\ cfg' = r.c
                    /\ ve' = r.ve
                    /\ applied' = applied + 1
                    /\ UNCHANGED <<pc, err>>
    /\ UNCHANGED <<opts, logger, written, calls, exitCode>>
    /\ UNCHANGED <<ctx, args, children, withs, hook, goroutines, arrays, passed>>

\* NewLogger, the return after the loop.
ReturnLogger ==
    /\ pc = "options"
    /\ applied = Len(opts)
    /\ logger' = [handler |-> cfg.handler, bound |-> << >>,
                  extraCtxFields |-> cfg.extraCtxFields]
    /\ pc' = "built"
    /\ UNCHANGED <<opts, cfg, applied, err, ve, written, calls, exitCode>>
    /\ UNCHANGED <<ctx, args, children, withs, hook, goroutines, arrays, passed>>

\* The loggers of the caller: the one NewLogger returned, then those With
\* returned.
Loggers == <<logger>> \o children

\* The caller makes at most MaxCalls calls in any order, or the calls of
\* the tests: the seven methods in the order of Methods.
CanCall(method) ==
    /\ pc = "built"
    /\ \/ Len(calls) < MaxCalls
       \/ /\ Len(calls) < Len(Methods)
          /\ Append(calls, method) = SubSeq(Methods, 1, Len(calls) + 1)

\* What a leveled method does: logg.l.Log(ctx, level, msg,
\* logg.addContextData(ctx, args...)...).
LogCall(method, level) ==
    /\ CanCall(method)
    /\ \E k \in 1..Len(Loggers), t \in Clock :
         \E forwarded \in {addContextData(Loggers[k].extraCtxFields, ctx, args)} :
            /\ written' = Log(Loggers[k], cfg, written, t, level, Str_message, forwarded)
            /\ passed' = Append(passed, [by |-> k, args |-> forwarded])
    /\ calls' = Append(calls, method)
    /\ UNCHANGED <<ctx, args, children, withs, hook, goroutines, arrays>>

Trace ==
    /\ LogCall("Trace", LevelTrace)
    /\ UNCHANGED <<opts, pc, cfg, applied, err, ve, logger, exitCode>>

Debug ==
    /\ LogCall("Debug", LevelDebug)
    /\ UNCHANGED <<opts, pc, cfg, applied, err, ve, logger, exitCode>>

Verbose ==
    /\ LogCall("Verbose", LevelVerbose)
    /\ UNCHANGED <<opts, pc, cfg, applied, err, ve, logger, exitCode>>

Info ==
    /\ LogCall("Info", LevelInfo)
    /\ UNCHANGED <<opts, pc, cfg, applied, err, ve, logger, exitCode>>

Warn ==
    /\ LogCall("Warn", LevelWarn)
    /\ UNCHANGED <<opts, pc, cfg, applied, err, ve, logger, exitCode>>

Error ==
    /\ LogCall("Error", LevelError)
    /\ UNCHANGED <<opts, pc, cfg, applied, err, ve, logger, exitCode>>

\* Fatal with the two statements swapped: the process exits before the
\* record is logged.
Fatal_ExitFirst ==
    /\ CanCall("Fatal")
    /\ calls' = Append(calls, "Fatal")
    /\ pc' = "exited"
    /\ exitCode' = 1
    /\ UNCHANGED <<opts, cfg, applied, err, ve, logger, written>>
    /\ UNCHANGED <<ctx, args, children, withs, hook, goroutines, arrays, passed>>

\* Fatal logs, then calls os.Exit(1).
Fatal ==
    /\ LogCall("Fatal", LevelFatal)
    /\ pc' = "exited"
    /\ exitCode' = 1
    /\ UNCHANGED <<opts, cfg, applied, err, ve, logger>>

\* With on a fresh slog.Logger: the child is given the new attributes
\* only, not those the receiver has bound.
With_NoChain ==
    /\ pc = "built"
    /\ Len(children) < MaxWith
    /\ LET pairs == <<Attr("service", StringValue(Str_file)),
                      Attr("user_id", Int64Value(123)),
                      Attr("env", StringValue(Str_text))>>
       IN \E k \in 1..Len(Loggers),
             a \in {<< >>, <<pairs[((Len(children)) % 3) + 1]>>} :
            /\ children' = Append(children,
                                [handler |-> Loggers[k].handler,
                                 bound |-> a,
                                 extraCtxFields |-> Loggers[k].extraCtxFields])
            /\ withs' = Append(withs, [by |-> k, args |-> a])
            /\ UNCHANGED logger
    /\ UNCHANGED <<opts, pc, cfg, applied, err, ve, written, calls, exitCode>>
    /\ UNCHANGED <<ctx, args, hook, goroutines, arrays, passed>>

\* With that binds the attributes on the receiver too.
With_InPlace ==
    /\ pc = "built"
    /\ Len(children) < MaxWith
    /\ LET pairs == <<Attr("service", StringValue(Str_file)),
                      Attr("user_id", Int64Value(123)),
                      Attr("env", StringValue(Str_text))>>
       IN \E k \in 1..Len(Loggers),
             a \in {<< >>, <<pairs[((Len(children)) % 3) + 1]>>} :
            /\ children' = Append([j \in 1..Len(children) |->
                                   IF j + 1 = k THEN [children[j] EXCEPT !.bound = @ \o a]
                                   ELSE children[j]],
                                [handler |-> Loggers[k].handler,
                                 bound |-> Loggers[k].bound \o a,
                                 extraCtxFields |-> Loggers[k].extraCtxFields])
            /\ withs' = Append(withs, [by |-> k, args |-> a])
            /\ logger' = IF k = 1 THEN [logger EXCEPT !.bound = @ \o a] ELSE logger
    /\ UNCHANGED <<opts, pc, cfg, applied, err, ve, written, calls, exitCode>>
    /\ UNCHANGED <<ctx, args, hook, goroutines, arrays, passed>>

\* The attributes and group paths the rewriter is called with: the keys
\* level, time and another one, with a level in and out of levelNames, an
\* integer, a time, a string, and groups of these one and two deep.
InitAttr ==
    LET at == TimeValue(CHOOSE t \in Clock : TRUE)
        values == <<LevelValue(LevelError), LevelValue(LevelVerbose), LevelValue(2),
                    Int64Value(8), Int64Value(5), at, StringValue(Str_INFO)>>
        keys == <<LevelKey, TimeKey, "k">>
        inner == Attr("in", GroupValue(<<Attr("at", at), Attr(LevelKey, LevelValue(LevelWarn))>>))
        members == <<(<<Attr(TimeKey, at), Attr(LevelKey, LevelValue(LevelError))>>),
                     (<<Attr("k", Int64Value(5)), Attr("at", at)>>),
                     (<<Attr("n", Int64Value(5)), inner, Attr(TimeKey, at)>>),
                     (<< >>)>>
    IN /\ InitLogger({<<OptConfig(CfgTime(StringVal(T)))>> : T \in {UnixDate, EmptyStr}},
                     {Background}, {<< >>})
       /\ goroutines = << >>
       /\ arrays = << >>
       /\ \E groups \in {<< >>, <<"g">>}, k \in 1..Len(keys) :
            \/ \E v \in 1..Len(values) :
                  hook = [groups |-> groups, given |-> Attr(keys[k], values[v]),
                          attr |-> Attr(keys[k], values[v]), steps |-> << >>]
            \/ \E m \in 1..Len(members) :
                  hook = [groups |-> groups, given |-> Attr(keys[k], GroupValue(members[m])),
                          attr |-> Attr(keys[k], GroupValue(members[m])), steps |-> << >>]

\* Goroutines that call Error on one logger with a key or two registered,
\* each with a context of its own. The explicit arguments are a slice the
\* callers share, with or without spare capacity, or a slice of the
\* goroutine's own.
InitConc ==
    /\ InitLogger({<<OptFields(<<KeyUser>>)>>, <<OptFields(<<KeyRequest, KeyUser>>)>>},
                  {Background}, {<< >>, <<Attr("status", Int64Value(200))>>})
    /\ hook = "none"
    /\ goroutines = [g \in 1..MaxGoroutines |->
                        [pc |-> "idle", ctx |-> Background, arr |-> 0, len |-> 0,
                         next |-> 1, out |-> << >>]]
    /\ \E spare \in 0..1 :
          arrays = [id \in 0..MaxGoroutines |->
                       IF id = 0 THEN args \o [i \in 1..spare |-> "nil"] ELSE << >>]

\* Goroutine g calls Error(ctx, msg, args...): with the shared slice, args
\* is that slice itself; its own slice has no spare capacity.
Enter(g) ==
    /\ pc = "built"
    /\ goroutines[g].pc = "idle"
    /\ \E c \in {Background, <<Binding(KeyUser, FALSE, Attr("", Int64Value(g)))>>},
          shared \in BOOLEAN :
          /\ goroutines' = [goroutines EXCEPT ![g] =
                                [pc |-> "loop", ctx |-> c, arr |-> IF shared THEN 0 ELSE g,
                                 len |-> Len(args), next |-> 1, out |-> << >>]]
          /\ arrays' = IF shared THEN arrays ELSE [arrays EXCEPT ![g] = args]
    /\ UNCHANGED <<opts, pc, cfg, applied, err, ve, logger, written, calls, exitCode>>
    /\ UNCHANGED <<ctx, args, children, withs, hook, passed>>

\* One iteration of the loop of addContextData in goroutine g. append
\* writes into the array of args when it has a spare cell, whoever else
\* holds a slice of that array, and copies to a new array otherwise.
Iterate(g) ==
    /\ goroutines[g].pc = "loop"
    /\ goroutines[g].next <= Len(logger.extraCtxFields)
    /\ LET r == goroutines[g]
           Appended(add) ==
               IF add = << >>
               THEN /\ goroutines' = [goroutines EXCEPT ![g].next = @ + 1]
                    /\ UNCHANGED arrays
               ELSE IF r.len < Len(arrays[r.arr])
               THEN /\ arrays' = [arrays EXCEPT ![r.arr][r.len + 1] = add[1]]
                    /\ goroutines' = [goroutines EXCEPT ![g].next = @ + 1,
                                                        ![g].len = @ + 1]
               ELSE /\ arrays' = [arrays EXCEPT ![g] = SubSeq(arrays[r.arr], 1, r.len) \o add]
                    /\ goroutines' = [goroutines EXCEPT ![g].next = @ + 1,
                                                        ![g].len = @ + 1,
                                                        ![g].arr = g]
       IN Appended(addContextData(<<logger.extraCtxFields[r.next]>>, r.ctx, << >>))
    /\ UNCHANGED <<opts, pc, cfg, applied, err, ve, logger, written, calls, exitCode>>
    /\ UNCHANGED <<ctx, args, children, withs, hook, passed>>

\* Goroutine g returns from addContextData and calls logg.l.Log with the
\* slice as it is then.
Emit(g) ==
    /\ goroutines[g].pc = "loop"
    /\ goroutines[g].next > Len(logger.extraCtxFields)
    /\ \E t \in Clock :
         \E forwarded \in {SubSeq(arrays[goroutines[g].arr], 1, goroutines[g].len)} :
            /\ written' = Log(logger, cfg, written, t, LevelError, Str_message, forwarded)
            /\ passed' = Append(passed, [by |-> 1, args |-> forwarded])
            /\ goroutines' = [goroutines EXCEPT ![g].pc = "done", ![g].out = forwarded]
    /\ calls' = Append(calls, "Error")
    /\ UNCHANGED <<opts, pc, cfg, applied, err, ve, logger, exitCode>>
    /\ UNCHANGED <<ctx, args, children, withs, hook, arrays>>

\* Logger.With: a new Logger around logg.l.With(args...), with the
\* receiver's extraCtxFields. The n-th call of a run binds nothing or the
\* n-th of three attributes.
With ==
    /\ pc = "built"
    /\ Len(children) < MaxWith
    /\ LET pairs == <<Attr("service", StringValue(Str_file)),
                      Attr("user_id", Int64Value(123)),
                      Attr("env", StringValue(Str_text))>>
       IN \E k \in 1..Len(Loggers),
             a \in {<< >>, <<pairs[((Len(children)) % 3) + 1]>>} :
            /\ children' = Append(children,
                                [handler |-> Loggers[k].handler,
                                 bound |-> Loggers[k].bound \o a,
                                 extraCtxFields |-> Loggers[k].extraCtxFields])
            /\ withs' = Append(withs, [by |-> k, args |-> a])
    /\ UNCHANGED <<opts, pc, cfg, applied, err, ve, logger, written, calls, exitCode>>
    /\ UNCHANGED <<ctx, args, hook, goroutines, arrays, passed>>

\* The rewriter called on the attribute of hook, with the group path of
\* hook and the time template of the Config the handler was built from.
Rewrite(name, a) ==
    /\ pc = "built"
    /\ Len(hook.steps) < MaxRewrites
    /\ hook' = [hook EXCEPT !.attr = a, !.steps = Append(@, name)]
    /\ UNCHANGED <<opts, pc, cfg, applied, err, ve, logger, written, calls, exitCode>>
    /\ UNCHANGED <<ctx, args, children, withs, goroutines, arrays, passed>>

RewriteLevel == Rewrite("level", replaceLevelAttr(hook.groups, hook.attr))

RewriteTime == Rewrite("time", replaceTimeAttrs(hook.groups, hook.attr, cfg.timeTemplate))

RewriteBoth == Rewrite("both", ReplaceAttr(cfg, hook.groups, hook.attr))

NextBuild == ApplyDefaults \/ ApplyOption \/ ReturnLogger

Next ==
    \/ ApplyDefaults
    \/ ApplyOption
    \/ ReturnLogger
    \/ Trace
    \/ Debug
    \/ Verbose
    \/ Info
    \/ Warn
    \/ Error
    \/ Fatal

Spec == Init /\ [][Next]_vars

SpecBuild == InitBuild /\ [][NextBuild]_vars

NextCtx ==
    \/ ApplyDefaults
    \/ ApplyOption
    \/ ReturnLogger
    \/ With
    \/ Error

SpecCtx == InitCtx /\ [][NextCtx]_vars

NextAttr ==
    \/ ApplyDefaults
    \/ ApplyOption
    \/ ReturnLogger
    \/ RewriteLevel
    \/ RewriteTime
    \/ RewriteBoth

SpecAttr == InitAttr /\ [][NextAttr]_vars

NextConc ==
    \/ ApplyDefaults
    \/ ApplyOption
    \/ ReturnLogger
    \/ \E g \in 1..MaxGoroutines : Enter(g)
    \/ \E g \in 1..MaxGoroutines : Iterate(g)
    \/ \E g \in 1..MaxGoroutines : Emit(g)

SpecConc == InitConc /\ [][NextConc]_vars

(***************************************************************************)
(* Properties.                                                             *)
(***************************************************************************)
\* The severity order the specification gives the seven names, lowest
\* first, and the names as the records show them.
SeverityOrder ==
    <<Str_TRACE, Str_DEBUG, Str_VERBOSE, Str_INFO, Str_WARN, Str_ERROR, Str_FATAL>>

\* The place of a method in the severity order.
MethodRank(method) == CHOOSE i \in 1..Len(Methods) : Methods[i] = method

\* The level fields of the records a writer holds, in order.
LevelsWritten(w) == [i \in 1..Len(written[w]) |-> written[w][i].level]

\* The level fields expected of the calls made so far, of those at rank
\* `rank` or above.
ExpectedLevels(rank) ==
    LET Keep(m) == MethodRank(m) >= rank
        kept == SelectSeq(calls, Keep)
    IN [i \in 1..Len(kept) |-> StringValue(SeverityOrder[MethodRank(kept[i])])]

Returned_ == pc \in {"built", "exited"}

\* The level strings of C1, in several letter cases, with the rank of the
\* level each names.
C1_Rank ==
    (Str_trace :> 1) @@ (Str_debug :> 2) @@ (Str_dEbUg :> 2) @@ (Str_verbose :> 3) @@
    (Str_info :> 4) @@ (Str_INFO :> 4) @@ (Str_warn :> 5) @@ (Str_Warn :> 5) @@
    (Str_error :> 6)

C1_Built(L) ==
    opts \in {<<OptConfig(CfgLevel(StringVal(L))), OptWriter("w")>>,
              <<OptConfig(TestCfg(L)), OptWriter("w")>>}

\* C1: for every level string L among trace, debug, verbose, info, warn and
\* error, in any letter case, NewLogger(WithConfig{level: L}, WithWriter(w))
\* succeeds, and whatever calls are then made (the seven methods in order
\* among them), w holds exactly one record per call of severity L or
\* above, in call order, each with the level name of its method, and no
\* other writer holds anything.
C1_LevelFilter ==
    \A L \in DOMAIN C1_Rank :
        C1_Built(L) =>
            /\ pc \notin {"failed", "panicked"}
            /\ Returned_ =>
                /\ LevelsWritten("w") = ExpectedLevels(C1_Rank[L])
                /\ \A i \in 1..Len(written["w"]) :
                       written["w"][i].msg = StringValue(Str_message)
                /\ written["os.Stdout"] = << >>
                /\ written["os.Stderr"] = << >>

\* All seven methods were called in order on a logger at level "dEbUg":
\* Trace was dropped, the other six were written.
C1_Witness ==
    /\ C1_Built(Str_dEbUg)
    /\ calls = Methods
    /\ Len(written["w"]) = 6

C6_Template ==
    <<"stdZeroDay", ".", "stdZeroMonth", ".", "stdLongYear", " ",
      "stdHour", ":", "stdZeroMinute", ":", "stdZeroSecond", "stdFracSecond0">>

C6_DefaultHandler == [encoder |-> "json", level |-> 8, writer |-> "os.Stdout"]

\* The instant of Clock in the default template: "02.11.2026 09:07:03.042"
C6_Rendered ==
    <<"0", "2", ".", "1", "1", ".", "2", "0", "2", "6", " ",
      "0", "9", ":", "0", "7", ":", "0", "3", ".", "0", "4", "2">>

LastRan(k) ==
    \/ applied = k - 1 /\ pc \in {"failed", "panicked"}
    \/ applied = k /\ pc = "options"
    \/ applied = k /\ pc = "built" /\ Len(opts) = k

\* The layout formats the reference instant to a text that parses back to
\* the reference instant.
RoundTrips(T) ==
    Parse(T, Format(Instant(2006, 1, 2, 15, 4, 5, 0), T))
        = [err |-> FALSE, t |-> Instant(2006, 1, 2, 15, 4, 5, 0)]

\* The level strings of the model whose lower-cased form is one of the
\* seven names.
AcceptedLevels ==
    {Str_trace, Str_debug, Str_verbose, Str_info, Str_warn, Str_error, Str_fatal,
     Str_dEbUg, Str_INFO, Str_Warn}

\* The value is one the key accepts.
Acceptable(field, v) ==
    CASE field = "level" -> v \in AcceptedLevels
      [] field = "format" -> v \in {Str_json, Str_text, EmptyStr}
      [] field = "log_stream" -> v \in {Str_stdout, Str_stderr, EmptyStr}
      [] field = "time_template" -> v = EmptyStr \/ RoundTrips(v)

\* T of C3: the present keys whose value is not of kind string.
WrongKind(m) == {f \in Fields : m[f].type \notin {"absent", "string", "MyString"}}

\* V of C3: the present keys of kind string whose value is not acceptable.
BadValue(m) ==
    {f \in Fields : m[f].type \in {"string", "MyString"} /\ ~Acceptable(f, m[f].v)}

\* The message of C3 for the two lists.
C3_Message(types, values) ==
    "logger initialization failed: config data is invalid: "
    \o (IF types # << >> THEN "invalid_type=" \o Join(types, ",") ELSE "")
    \o (IF types # << >> /\ values # << >> THEN ", " ELSE "")
    \o (IF values # << >> THEN "invalid_value=" \o Join(values, ",") ELSE "")

\* C3: once NewLogger has applied a single WithConfig(m), for any mapping m
\* over the four keys: it did not crash; it failed iff some key has the
\* wrong kind or an unacceptable value; and on failure the invalid_type
\* list names exactly the keys of the wrong kind, the invalid_value list
\* exactly the keys with an unacceptable value, in the one message.
C3_AllProblemsListed ==
    (Len(opts) = 1 /\ opts[1].op = "WithConfig" /\ LastRan(1)) =>
        LET m == opts[1].cfg IN
        /\ pc # "panicked"
        /\ (pc = "failed") <=> (WrongKind(m) \cup BadValue(m) # {})
        /\ pc = "failed" =>
              /\ Range(ve.invalidTypes) = WrongKind(m)
              /\ Range(ve.invalidValues) = BadValue(m)
              /\ err = C3_Message(ve.invalidTypes, ve.invalidValues)

\* The errors an option may return ("" when it succeeds), and whether it
\* fails, by an error or a panic (in whatever order validateTypes visits
\* the keys).
OptErrs(opt) == {Apply(opt, ZeroConfig, t).err : t \in validateTypesResults(OptCfg(opt))}
OptFails(opt) ==
    LET Failed(r) == r.panic \/ r.err # ""
    IN Failed(Apply(opt, ZeroConfig,
                    validateTypes(OptCfg(opt), CHOOSE o \in FieldOrders : TRUE)))

\* The Config after the defaults and the options of the list, all of which
\* succeed.
RECURSIVE ConfigAfter(_, _)
ConfigAfter(c, list) ==
    IF list = << >> THEN c
    ELSE ConfigAfter(Apply(Head(list), c, << >>).c, Tail(list))

\* C4: NewLogger never applies an option that follows a failing one; when
\* it has failed, it returns no logger, the error wraps the error of the
\* first failing option of the list, and the Config is what the options
\* before that one made it; it returns a logger iff no option fails.
C4_FirstErrorWins ==
    LET failing == {i \in 1..Len(opts) : OptFails(opts[i])}
        first == IF failing = {} THEN 0
                 ELSE CHOOSE i \in failing : \A j \in failing : i <= j
    IN /\ applied <= (IF first = 0 THEN Len(opts) ELSE first - 1)
       /\ pc = "failed" =>
            /\ first > 0
            /\ applied = first - 1
            /\ logger = NilLogger
            /\ err \in {"logger initialization failed: " \o e : e \in OptErrs(opts[first])}
            /\ cfg = ConfigAfter(WithDefaults(ZeroConfig, << >>).c,
                                 SubSeq(opts, 1, first - 1))
       /\ pc = "built" => first = 0 /\ applied = Len(opts)
       /\ (logger # NilLogger) <=> (pc = "built")
       /\ logger # NilLogger => err = ""
       /\ first = 0 => pc \notin {"failed", "panicked"}

\* Two failing options: the error is the first one's.
C4_Witness ==
    /\ opts = <<OptConfig(CfgFormat(StringVal(Str_xml))), OptWriter(NilWriter)>>
    /\ pc = "failed"
    /\ err = "logger initialization failed: config data is invalid: invalid_value=format"

\* The level each accepted level string of the model names.
C5_LevelOf ==
    (Str_trace :> -8) @@ (Str_debug :> -4) @@ (Str_dEbUg :> -4) @@ (Str_verbose :> -2) @@
    (Str_info :> 0) @@ (Str_INFO :> 0) @@ (Str_warn :> 4) @@ (Str_Warn :> 4) @@
    (Str_error :> 8) @@ (Str_fatal :> 16)

\* The mapping an option applies: WithDefaults applies json, error,
\* "02.01.2006 15:04:05.000" and stdout.
C5_Cfg(opt) ==
    IF opt.op = "WithDefaults"
    THEN [format |-> StringVal(Str_json), level |-> StringVal(Str_error),
          time_template |-> StringVal(C6_Template), log_stream |-> StringVal(Str_stdout)]
    ELSE opt.cfg

\* Whether an option sets a field of the Config, and to what.  An empty
\* format or time template sets the default; an empty log_stream names no
\* writer and sets nothing.
C5_Sets(opt, field) ==
    CASE field = "writer" ->
            \/ opt.op = "WithWriter"
            \/ /\ C5_Cfg(opt)["log_stream"].type = "string"
               /\ C5_Cfg(opt)["log_stream"].v # EmptyStr
      [] field = "level" -> C5_Cfg(opt)["level"].type = "string"
      [] field = "format" -> C5_Cfg(opt)["format"].type = "string"
      [] field = "time_template" -> C5_Cfg(opt)["time_template"].type = "string"

C5_Value(opt, field) ==
    LET m == C5_Cfg(opt) IN
    CASE field = "writer" ->
            IF opt.op = "WithWriter" THEN opt.w
            ELSE IF m["log_stream"].v = Str_stdout THEN "os.Stdout" ELSE "os.Stderr"
      [] field = "level" -> C5_LevelOf[m["level"].v]
      [] field = "format" -> IF m["format"].v = EmptyStr THEN Str_json ELSE m["format"].v
      [] field = "time_template" ->
            IF m["time_template"].v = EmptyStr THEN C6_Template ELSE m["time_template"].v

\* The value of the field set by the last option that sets it, the
\* defaults being applied first.
C5_Final(field) ==
    LET all == <<OptDefaults>> \o opts
        last == CHOOSE i \in 1..Len(all) :
                    /\ C5_Sets(all[i], field)
                    /\ \A j \in (i + 1)..Len(all) : ~C5_Sets(all[j], field)
    IN C5_Value(all[last], field)

C7_FieldsValid ==
    pc = "built" =>
        /\ cfg.logType \in {Str_json, Str_text}
        /\ cfg.writer \in {"os.Stdout", "os.Stderr", "w"}
        /\ cfg.timeTemplate # << >>
        /\ cfg.level \in {-8, -4, -2, 0, 4, 8, 16}
        /\ logger.handler.encoder \in {"json", "text"}
        /\ logger.handler.writer = cfg.writer

\* A mapping with an empty format after one with "text": json again.
C7_Witness ==
    /\ opts = <<OptConfig(CfgFormat(StringVal(Str_text))),
                OptConfig(CfgFormat(StringVal(EmptyStr)))>>
    /\ pc = "built"
    /\ cfg.logType = Str_json

\* C8: WithConfig with an empty level string succeeds, and the logger's
\* minimum level is error.
C8_EmptyLevelIsDefault ==
    (opts = <<OptConfig(CfgLevel(StringVal(EmptyStr)))>> /\ LastRan(1)) =>
        /\ pc # "failed"
        /\ pc = "built" => logger.handler.level = 8

KeptLayout(kept) == LayoutOf(kept, Components)

AllComponents == {"year", "month", "day", "hour", "minute", "second"}

C10_Ran(T) == opts = <<OptConfig(CfgTime(StringVal(T)))>> /\ LastRan(1)

C10_Rejected ==
    /\ pc = "failed"
    /\ err = "logger initialization failed: config data is invalid: invalid_value=time_template"

C11_Cfg(f) == [TestCfg(Str_info) EXCEPT !["format"] = StringVal(f)]

C11_Run(f) == opts = <<OptConfig(C11_Cfg(f)), OptWriter("w")>>

\* C11: with the format "json" or "" every record the logger writes is a
\* JSON record, with "text" every record is a text record and none a JSON
\* record; with any other format string NewLogger fails on the format and
\* returns no logger; and buildHandler gives the text encoder to a Config
\* whose format is "text" in any letter case and the JSON encoder to every
\* other.
C11_FormatSelectsEncoder ==
    /\ \A f \in {Str_json, EmptyStr} :
          C11_Run(f) =>
              /\ pc \notin {"failed", "panicked"}
              /\ \A i \in 1..Len(written["w"]) : written["w"][i].encoder = "json"
    /\ C11_Run(Str_text) =>
          /\ pc \notin {"failed", "panicked"}
          /\ \A i \in 1..Len(written["w"]) : written["w"][i].encoder = "text"
    /\ \A f \in {Str_unknown, Str_TEXT} :
          (C11_Run(f) /\ LastRan(1)) =>
              /\ pc = "failed"
              /\ logger = NilLogger
              /\ err = "logger initialization failed: config data is invalid: invalid_value=format"
    /\ \A f \in {Str_text, Str_TEXT, <<"T", "e", "x", "t">>} :
          buildHandler([cfg EXCEPT !.logType = f]).encoder = "text"
    /\ \A f \in {Str_json, EmptyStr, Str_xml, Str_unknown, Str_file, <<"t", "e", "x", "t", "s">>} :
          buildHandler([cfg EXCEPT !.logType = f]).encoder = "json"

\* The text logger of TestLogType has written its Info record.
C11_Witness ==
    /\ C11_Run(Str_text)
    /\ calls = <<"Info">>
    /\ Len(written["w"]) = 1
    /\ written["w"][1].encoder = "text"

(***************************************************************************)
(* C12: context attributes.                                                *)
(***************************************************************************)
\* What one registered key contributes for a context: nothing without a
\* binding; the innermost bound value itself when it is a slog.Attr;
\* otherwise an attribute under the key's text for a string or Stringer
\* key, and nothing for a key of another shape.
C12_Contribution(k, c) ==
    LET at == {i \in 1..Len(c) : c[i].key = k}
        last == CHOOSE i \in at : \A j \in at : j <= i
    IN IF at = {} THEN << >>
       ELSE IF c[last].isAttr THEN <<c[last].attr>>
       ELSE IF k.shape = "string" \/ k.shape = "stringer"
            THEN <<[key |-> k.name, value |-> c[last].attr.value]>>
       ELSE << >>

RECURSIVE C12_Derived(_, _)
C12_Derived(fields, c) ==
    IF Len(fields) = 0 THEN << >>
    ELSE C12_Derived(SubSeq(fields, 1, Len(fields) - 1), c)
             \o C12_Contribution(fields[Len(fields)], c)

\* C12: every call passes on its explicit arguments followed by the
\* contributions of the registered keys in registration order: nothing
\* for a key the context does not bind, the stored attribute itself (under
\* its own key) when the value is a slog.Attr, otherwise an attribute
\* under the key's string or String() text; a registered key of another
\* shape adds nothing and fails nothing, and keys that are not registered
\* contribute nothing.
C12_ContextAttributes ==
    /\ \A i \in 1..Len(passed) :
          passed[i].args = args \o C12_Derived(Loggers[passed[i].by].extraCtxFields, ctx)
    /\ LET bound == <<Binding(KeyStruct, FALSE, Attr("", Int64Value(9)))>> \o ctx
       IN /\ addContextData(<<KeyStruct, KeyUser>>, bound, args)
                = args \o C12_Derived(<<KeyUser>>, ctx)
          /\ addContextData(<<KeyUser, KeyStruct, KeyRequest>>, bound, args)
                = args \o C12_Derived(<<KeyUser, KeyRequest>>, ctx)
    /\ addContextData(<< >>, ctx, args) = args

\* A call with one explicit attribute and a context that binds the
\* registered key to a slog.Attr with a key of its own.
C12_Witness ==
    /\ Len(passed) = 1
    /\ logger.extraCtxFields = <<KeyUser, KeyRequest>>
    /\ passed[1].args = <<Attr("status", Int64Value(200)), Attr("uid", Int64Value(123))>>
    /\ Len(written["os.Stdout"]) = 1
    /\ written["os.Stdout"][1].attrs = passed[1].args

(***************************************************************************)
(* C13, C14: With.                                                         *)
(***************************************************************************)
\* The attributes of the With calls that lead to logger k, outermost
\* first (logger 1 is the one NewLogger returned).
RECURSIVE C13_Chain(_)
C13_Chain(k) ==
    IF k = 1 THEN << >>
    ELSE C13_Chain(withs[k - 1].by) \o withs[k - 1].args

\* The records of the calls, in order: every logger of a run writes to the
\* writer of the first, and no call is below the minimum level.
C13_Records == written[logger.handler.writer]

\* C13: a record emitted through a logger obtained by With holds the
\* attributes bound by every With of its chain, then the call's arguments
\* and context attributes; a With without arguments adds nothing.
C13_WithAccumulates ==
    pc = "built" =>
        /\ Len(C13_Records) = Len(passed)
        /\ \A i \in 1..Len(passed) :
              C13_Records[i].attrs = C13_Chain(passed[i].by) \o passed[i].args
        /\ \A n \in 1..Len(withs) :
              withs[n].args = << >> => children[n].bound = Loggers[withs[n].by].bound

\* With on a logger that With returned, both with an attribute, and a call
\* through the second.
C13_Witness ==
    /\ Len(withs) = 2
    /\ withs[2].by = 2
    /\ withs[1].args # << >>
    /\ withs[2].args # << >>
    /\ \E i \in 1..Len(passed) :
          /\ passed[i].by = 3
          /\ passed[i].args # << >>
          /\ C13_Records[i].attrs = withs[1].args \o withs[2].args \o passed[i].args

\* C14: With leaves its receiver and every other logger as they were:
\* the records of the first logger hold no bound attribute, and every
\* child has the extraction keys and the handler (minimum level, encoder,
\* writer, and the time template of its records) of the first logger.
C14_Frame ==
    /\ \A k \in 1..Len(children) :
          /\ children[k].extraCtxFields = logger.extraCtxFields
          /\ children[k].handler = logger.handler
    /\ pc = "built" =>
          \A i \in 1..Len(passed) :
             /\ passed[i].by = 1 => C13_Records[i].attrs = passed[i].args
             /\ C13_Records[i].time = StringValue(Format(CHOOSE t \in Clock : TRUE, cfg.timeTemplate))
             /\ C13_Records[i].encoder = logger.handler.encoder

C14_WithKeepsReceiver ==
    /\ []C14_Frame
    /\ [][Len(children') > Len(children) =>
             /\ logger' = logger
             /\ SubSeq(children', 1, Len(children)) = children]_vars

\* Two loggers derived from the first, then a call through the first.
C14_Witness ==
    /\ Len(withs) = 2
    /\ withs[1].by = 1
    /\ withs[1].args # << >>
    /\ withs[2].args # << >>
    /\ Len(passed) > 0
    /\ passed[Len(passed)].by = 1
    /\ Len(C13_Records) = Len(passed)
    /\ logger.bound = << >>

(***************************************************************************)
(* C15: the nil writer.                                                    *)
(***************************************************************************)
\* NewLogger with WithWriter(nil) after options that succeed: the option
\* is never passed and no logger is returned; NewLogger fails with the
\* given cause, and the writer and the handler of the Config are those
\* the options before it left.
C15_NilWriter(cause) ==
    /\ \A i \in 1..Len(opts) :
          (opts[i] = OptWriter(NilWriter) /\ \A j \in 1..(i - 1) : ~OptFails(opts[j])) =>
             /\ applied < i
             /\ pc # "built"
             /\ logger = NilLogger
             /\ pc = "failed" =>
                   LET before == ConfigAfter(WithDefaults(ZeroConfig, << >>).c,
                                             SubSeq(opts, 1, i - 1))
                   IN /\ err = "logger initialization failed: " \o cause
                      /\ cfg.writer = before.writer
                      /\ cfg.handler = before.handler
    /\ WithWriter(NilWriter, cfg).c = cfg

\* C15 as claimed: the cause of the error is "expected a non-nil writer".
C15_NilWriterFails_Claimed == C15_NilWriter("expected a non-nil writer")

\* C15: WithWriter(nil) fails NewLogger at any position of the option
\* list: no logger is returned, the cause of the error is
\* "expected io.Writer, got nil", and the writer and the handler of the
\* Config are as they were before the option ran.
C15_NilWriterFails == C15_NilWriter("expected io.Writer, got nil")

\* A nil writer after a writer: NewLogger has failed and the Config still
\* holds the first writer.
C15_Witness ==
    /\ opts = <<OptWriter("w"), OptWriter(NilWriter)>>
    /\ pc = "failed"
    /\ applied = 1
    /\ cfg.writer = "w"
    /\ cfg.handler.writer = "w"
    /\ err = "logger initialization failed: expected io.Writer, got nil"

(***************************************************************************)
(* C17: the level field.                                                   *)
(***************************************************************************)
\* The severity and the name the specification gives each method.
C17_Severity ==
    [Trace |-> -8, Debug |-> -4, Verbose |-> -2, Info |-> 0, Warn |-> 4,
     Error |-> 8, Fatal |-> 16]

C17_Name ==
    [Trace |-> Str_TRACE, Debug |-> Str_DEBUG, Verbose |-> Str_VERBOSE,
     Info |-> Str_INFO, Warn |-> Str_WARN, Error |-> Str_ERROR, Fatal |-> Str_FATAL]

C18_WriterOption(opt) ==
    \/ opt.op \in {"WithWriter", "WithDefaults"}
    \/ opt.op = "WithConfig" /\ opt.cfg.log_stream # Absent

\* C18: when NewLogger has succeeded and the last option that affects the
\* writer is a WithConfig with log_stream == "", the logger writes to
\* os.Stdout.
C18_EmptyStreamIsStdout ==
    LET affecting == {i \in 1..Len(opts) : C18_WriterOption(opts[i])}
        last == CHOOSE i \in affecting : \A j \in affecting : j <= i
    IN (/\ pc = "built"
        /\ affecting # {}
        /\ opts[last].op = "WithConfig"
        /\ opts[last].cfg.log_stream = StringVal(EmptyStr))
       => /\ cfg.writer = "os.Stdout"
          /\ logger.handler.writer = "os.Stdout"

(***************************************************************************)
(* C19, C20: the two rewrites.                                             *)
(***************************************************************************)
\* Equality of attributes, kind before value.
RECURSIVE SameAttr(_, _)
SameAttr(a, b) ==
    /\ a.key = b.key
    /\ a.value.kind = b.value.kind
    /\ IF a.value.kind = "Group"
       THEN /\ Len(a.value.v) = Len(b.value.v)
            /\ \A i \in 1..Len(a.value.v) : SameAttr(a.value.v[i], b.value.v[i])
       ELSE a.value.v = b.value.v

\* The level table of the specification, by numeric value.
C19_Names ==
    (-8 :> Str_TRACE) @@ (-4 :> Str_DEBUG) @@ (-2 :> Str_VERBOSE) @@ (0 :> Str_INFO) @@
    (4 :> Str_WARN) @@ (8 :> Str_ERROR) @@ (16 :> Str_FATAL)

C19_Expected(groups, a) ==
    IF /\ a.key = LevelKey
       /\ groups = << >>
       /\ a.value.kind \in {"Level", "Int64"}
       /\ a.value.v \in DOMAIN C19_Names
    THEN [key |-> LevelKey, value |-> [kind |-> "String", v |-> C19_Names[a.value.v]]]
    ELSE a

\* C19: level rendering replaces an attribute by the upper-case name iff
\* its key is "level", the group path is empty and its value is a level or
\* a plain integer equal to one of the seven table values; every other
\* attribute (a "level" inside a group, a level outside the table) is
\* returned unchanged.
C19_LevelRendering ==
    (pc = "built" /\ hook.steps = <<"level">>) =>
        SameAttr(hook.attr, C19_Expected(hook.groups, hook.given))

\* The attribute with every time value at any depth replaced by its text.
RECURSIVE C20_Expected(_, _)
C20_Expected(a, layout) ==
    IF a.value.kind = "Time"
    THEN [key |-> a.key, value |-> [kind |-> "String", v |-> Format(a.value.v, layout)]]
    ELSE IF a.value.kind = "Group"
    THEN [key |-> a.key,
          value |-> [kind |-> "Group",
                     v |-> [i \in 1..Len(a.value.v) |-> C20_Expected(a.value.v[i], layout)]]]
    ELSE a

C16_ConcurrentCalls ==
    pc = "built" =>
        /\ \A g \in DOMAIN goroutines :
              goroutines[g].pc = "done" =>
                  goroutines[g].out
                      = args \o C12_Derived(logger.extraCtxFields, goroutines[g].ctx)
        /\ logger.extraCtxFields = cfg.extraCtxFields

(***************************************************************************)
(* C21: the rewrites commute and are idempotent.                           *)
(***************************************************************************)
\* C21: for every attribute and group path, level rendering followed by
\* timestamp rendering gives what the opposite order gives, each of the
\* two applied twice gives what it gives applied once, and so does the
\* hook that combines them.
C21_RewritesCommute ==
    pc = "built" =>
        LET g == hook.groups
            layout == cfg.timeTemplate
            Lvl(a) == replaceLevelAttr(g, a)
            Tm(a) == replaceTimeAttrs(g, a, layout)
        IN /\ hook.steps = <<"level", "time">> => SameAttr(hook.attr, Lvl(Tm(hook.given)))
           /\ hook.steps = <<"time", "level">> => SameAttr(hook.attr, Tm(Lvl(hook.given)))
           /\ hook.steps = <<"level", "level">> => SameAttr(hook.attr, Lvl(hook.given))
           /\ hook.steps = <<"time", "time">> => SameAttr(hook.attr, Tm(hook.given))
           /\ hook.steps = <<"both", "both">> =>
                  SameAttr(hook.attr, ReplaceAttr(cfg, g, hook.given))
           /\ hook.steps = <<"both">> => SameAttr(hook.attr, Tm(Lvl(hook.given)))

\* The hook applied twice to a top-level group with a timestamp two
\* groups deep: the timestamps are text and the second call changed
\* nothing.
C21_Witness ==
    /\ pc = "built"
    /\ hook.steps = <<"both", "both">>
    /\ hook.groups = << >>
    /\ hook.given.key = "k"
    /\ hook.given.value.kind = "Group"
    /\ Len(hook.given.value.v) = 3
    /\ hook.attr.value.v[3].value.kind = "String"
    /\ hook.attr.value.v[2].value.v[1].value.kind = "String"
    /\ SameAttr(hook.attr, ReplaceAttr(cfg, hook.groups, hook.given))

(***************************************************************************)
(* C22: values of a defined string type.                                   *)
(***************************************************************************)
\* C22: in a WithConfig(m), a key of m whose value is of a defined string
\* type (kind string, type not string) passes the type check: it is not
\* listed under invalid_type, and it is listed under invalid_value iff its
\* text is not acceptable for the key, like any other string.
C22_KindLevelTypeCheck ==
    (Len(opts) = 1 /\ opts[1].op = "WithConfig" /\ LastRan(1) /\ pc # "panicked") =>
        LET m == opts[1].cfg IN
        \A f \in Fields :
            m[f].type = "MyString" =>
                /\ f \notin Range(ve.invalidTypes)
                /\ (f \in Range(ve.invalidValues)) <=> ~Acceptable(f, m[f].v)

(***************************************************************************)
(* C23: each key is named once.                                            *)
(***************************************************************************)
\* C23: the validation error of a WithConfig names each key at most once
\* in the invalid_type and invalid_value lists taken together: a key that
\* failed the type check is not under invalid_value, and no key occurs
\* twice in invalid_type.
C23_EachKeyOnce ==
    LET named == ve.invalidTypes \o ve.invalidValues
    IN \A i, j \in 1..Len(named) : named[i] = named[j] => i = j

(***************************************************************************)
(* C24: the extraction keys.                                               *)
(***************************************************************************)
\* The keys the WithExtraContextFields options of a list supply, in order.
RECURSIVE C24_Keys(_)
C24_Keys(list) ==
    IF Len(list) = 0 THEN << >>
    ELSE C24_Keys(SubSeq(list, 1, Len(list) - 1))
            \o (IF list[Len(list)].op = "WithExtraContextFields"
                THEN list[Len(list)].fields ELSE << >>)

C24_Unsupported(opt) ==
    /\ opt.op = "WithExtraContextFields"
    /\ \E i \in 1..Len(opt.fields) : opt.fields[i].shape \notin {"string", "stringer"}

\* C24: the extraction list is at every point the concatenation of the
\* keys of the WithExtraContextFields options applied so far, in the order
\* they were supplied, duplicates included, and the logger returned holds
\* the keys of all of them; an option without keys changes nothing and
\* succeeds; an option with a key of an unsupported shape fails with one
\* error and appends none of its keys.
C24_KeysConcatenate ==
    /\ cfg.extraCtxFields = C24_Keys(SubSeq(opts, 1, applied))
    /\ pc = "built" => logger.extraCtxFields = C24_Keys(opts)
    /\ WithExtraContextFields(<< >>, cfg) = Returned("", cfg, NoErrors)
    /\ \A i \in 1..Len(opts) :
          C24_Unsupported(opts[i]) =>
             /\ applied < i
             /\ (pc = "failed" /\ applied = i - 1) =>
                   err = "logger initialization failed: "
                            \o validateLoggableContextKeys(opts[i].fields)
    /\ (pc = "failed" /\ opts[applied + 1].op = "WithExtraContextFields") =>
          C24_Unsupported(opts[applied + 1])

\* Keys in two options with an option without keys between them.
C24_Witness ==
    /\ opts = <<OptFields(<<KeyRequest, KeyUser>>), OptFields(<< >>), OptFields(<<KeyRequest>>)>>
    /\ pc = "built"
    /\ logger.extraCtxFields = <<KeyRequest, KeyUser, KeyRequest>>

(***************************************************************************)
(* C25: a failed WithConfig.                                               *)
(***************************************************************************)
\* C25: the step in which a WithConfig fails validation changes no field
\* of the Config: level, format, time template, writer, extraction keys
\* and handler are those the options before it left, whatever those
\* options and the invalid mapping are.
C25_FailedConfigUnchanged ==
    [][(pc = "options" /\ pc' = "failed" /\ opts[applied + 1].op = "WithConfig") =>
          /\ cfg' = cfg
          /\ hasErrors(ve')
          /\ cfg = ConfigAfter(WithDefaults(ZeroConfig, << >>).c, SubSeq(opts, 1, applied))]_vars

\* A writer, then a mapping with an unknown format: NewLogger has failed
\* and the Config holds the writer and the default format.
C25_Witness ==
    /\ opts = <<OptWriter("w"), OptConfig(CfgFormat(StringVal(Str_xml)))>>
    /\ pc = "failed"
    /\ applied = 1
    /\ cfg.writer = "w"
    /\ cfg.logType = Str_json
    /\ cfg.handler = [encoder |-> "json", level |-> LevelError, writer |-> "w"]
    /\ ve.invalidValues = <<"format">>

(***************************************************************************)
(* C26: WithConfig never crashes.                                          *)
(***************************************************************************)
\* C26: for every configuration mapping, one with a recognised key mapped
\* to nil and the nil mapping included, NewLogger ends by returning: it
\* never panics, a failure carries a non-empty error, and a success none.
C26_NeverCrashes ==
    /\ pc # "panicked"
    /\ pc = "failed" => err # ""
    /\ pc = "built" => err = ""

====
